---- MODULE Spec2Model ----
(***************************************************************************)
(* State-machine model of the eczema resource canister                     *)
(* (src/app/src/app_backend/src/lib.rs).                                   *)
(*                                                                         *)
(* Text is a sequence of Unicode code points, so that str::len (UTF-8      *)
(* bytes), to_lowercase and contains are computed as Rust computes them.   *)
(* A HashMap is a function from its key set; a Vec returned by a query is  *)
(* the set of its rows (HashMap iteration order is unspecified and ids     *)
(* make the rows distinct).  Stable memory is a sequence of cells that     *)
(* every stable_save writes from offset 0.                                 *)
(***************************************************************************)
EXTENDS Integers, Sequences, FiniteSets, TLC

VARIABLES resources, next_id, admin, clock, stable, phase,
          call, result, issued, adminEverSet, snap, prevAdmin, retried

vars == <<resources, next_id, admin, clock, stable, phase,
          call, result, issued, adminEverSet, snap, prevAdmin, retried>>

store == <<resources, next_id, admin>>

---------------------------------------------------------------------------
(* Bounds of the model *)

MaxId == 2

MaxTime == 1

MaxLen == 2

Slack == 1

(* Program constants *)

TitleMax == 100

DescMax == 500

---------------------------------------------------------------------------
(* Types *)

ResourceCategory ==
  {"Treatment", "Prevention", "Research", "DietAdvice", "Testimonial", "MedicalAdvice"}

Principals == {"alice", "bob"}

None == << >>

Some(x) == << x >>

CreateResourcePayload(title, description, category) ==
  [title |-> title, description |-> description, category |-> category]

EczemaResource(id, title, description, category, created_at, updated_at, verified) ==
  [id |-> id, title |-> title, description |-> description, category |-> category,
   created_at |-> created_at, updated_at |-> updated_at, verified |-> verified]

(* EczemaResult<T>: Ok carries the returned rows (none for unit), Err the  *)
(* EczemaError variant and, for InvalidInput, its message.                 *)
Ok(rows) == [kind |-> "Ok", err |-> "", msg |-> "", rows |-> rows]

Err(e, msg) == [kind |-> "Err", err |-> e, msg |-> msg, rows |-> {}]

Trap == [kind |-> "Trap", err |-> "", msg |-> "", rows |-> {}]

---------------------------------------------------------------------------
(* Text *)

\* Number of bytes of the UTF-8 encoding of one code point.
Utf8Len(c) == IF c < 128 THEN 1 ELSE IF c < 2048 THEN 2 ELSE IF c < 65536 THEN 3 ELSE 4

\* str::len: the length of the text in bytes.
StrLen(s) == Len(s) + Cardinality({<<i, k>> \in (DOMAIN s) \X (2..4) : k <= Utf8Len(s[i])})

\* str::is_empty
IsEmpty(s) == Len(s) = 0

\* The letters of the Basic Latin, Latin-1 and Greek blocks, with their case
\* properties as the Unicode tables of core::unicode give them.
IsUpper(c) ==
  \/ c >= 65 /\ c <= 90
  \/ c >= 192 /\ c <= 222 /\ c # 215
  \/ c >= 913 /\ c <= 937 /\ c # 930

IsLower(c) ==
  \/ c >= 97 /\ c <= 122
  \/ c >= 223 /\ c <= 255 /\ c # 247
  \/ c >= 945 /\ c <= 969

Cased(c) == IsUpper(c) \/ IsLower(c)

Case_Ignorable(c) == c \in {39, 46, 58, 94, 96, 168, 173, 175, 180, 183, 184}

\* char::to_lowercase (conversions::to_lower): in these blocks every capital
\* lies 32 below its small letter.
LowerChar(c) == IF IsUpper(c) THEN c + 32 ELSE c

\* case_ignorable_then_cased over the characters before i, nearest first.
CasedBefore(s, i) ==
  \E j \in 1..(i - 1) :
    /\ ~Case_Ignorable(s[j])
    /\ Cased(s[j])
    /\ \A k \in (j + 1)..(i - 1) : Case_Ignorable(s[k])

\* case_ignorable_then_cased over the characters after i.
CasedAfter(s, i) ==
  \E j \in (i + 1)..Len(s) :
    /\ ~Case_Ignorable(s[j])
    /\ Cased(s[j])
    /\ \A k \in (i + 1)..(j - 1) : Case_Ignorable(s[k])

\* map_uppercase_sigma: capital sigma (931) becomes final sigma (962) at the
\* end of a word and small sigma (963) elsewhere.
map_uppercase_sigma(s, i) ==
  IF CasedBefore(s, i) /\ ~CasedAfter(s, i) THEN 962 ELSE 963

\* str::to_lowercase
to_lowercase(s) ==
  [i \in DOMAIN s |-> IF s[i] = 931 THEN map_uppercase_sigma(s, i) ELSE LowerChar(s[i])]

\* str::contains(&str): pat occurs in s at some offset.
contains(s, pat) ==
  \E off \in 0..Len(s) :
    /\ off + Len(pat) <= Len(s)
    /\ \A j \in 1..Len(pat) : s[off + j] = pat[j]

Rep(c, n) == [i \in 1..n |-> c]

---------------------------------------------------------------------------
(* HashMap<u64, EczemaResource> *)

EmptyMap == << >>

Insert(m, k, v) == [x \in (DOMAIN m) \cup {k} |-> IF x = k THEN v ELSE m[x]]

Remove_nothing(m, k) == m

Remove(m, k) == [x \in (DOMAIN m) \ {k} |-> m[x]]

Values(m) == {m[k] : k \in DOMAIN m}

---------------------------------------------------------------------------
(* Helpers *)

get_timestamp == clock

validate_input(title, description) ==
  IF IsEmpty(title) \/ StrLen(title) > TitleMax
  THEN Err("InvalidInput", "Title must be 1-100 characters long.")
  ELSE IF IsEmpty(description) \/ StrLen(description) > DescMax
  THEN Err("InvalidInput", "Description must be 1-500 characters long.")
  ELSE Ok({})

is_admin_absent_matches(caller) == admin = None \/ admin = Some(caller)

is_admin_anyone(caller) == TRUE

is_admin(caller) == admin = Some(caller)

new_resource_stale_created_at(id, payload, timestamp) ==
  EczemaResource(id, payload.title, payload.description, payload.category,
                 0, timestamp, FALSE)

new_resource_unnumbered(id, payload, timestamp) ==
  EczemaResource(0, payload.title, payload.description, payload.category,
                 timestamp, timestamp, FALSE)

\* The resource create_resource builds (lib.rs 89-97).
new_resource(id, payload, timestamp) ==
  EczemaResource(id, payload.title, payload.description, payload.category,
                 timestamp, timestamp, FALSE)

bump_next_id_none(n) == n

\* The counter after an id was issued (lib.rs 100).
bump_next_id(n) == n + 1

updated_rebuilt(resource, payload, timestamp) ==
  EczemaResource(resource.id, payload.title, payload.description, payload.category,
                 resource.created_at, timestamp, FALSE)

\* The fields update_resource assigns (lib.rs 146-149).
updated(resource, payload, timestamp) ==
  [resource EXCEPT !.title = payload.title,
                   !.description = payload.description,
                   !.category = payload.category,
                   !.updated_at = timestamp]

verified_restamped(resource, timestamp) ==
  [resource EXCEPT !.verified = TRUE, !.updated_at = timestamp,
                   !.created_at = timestamp]

verified_toggles(resource, timestamp) ==
  [resource EXCEPT !.verified = ~resource.verified, !.updated_at = timestamp]

\* The fields verify_resource assigns (lib.rs 178-179).
verified(resource, timestamp) ==
  [resource EXCEPT !.verified = TRUE, !.updated_at = timestamp]

NoPayload == CreateResourcePayload(<< >>, << >>, "Treatment")

Call(op, id, payload, caller, query) ==
  [op |-> op, id |-> id, payload |-> payload, caller |-> caller, query |-> query]

---------------------------------------------------------------------------
(* Queries: the value each returns in the current state *)

get_resource(id) ==
  IF id \in DOMAIN resources THEN Ok({resources[id]}) ELSE Err("NotFound", "")

list_resources == Values(resources)

list_resources_by_category_unfiltered(category) == Values(resources)

list_resources_by_category(category) ==
  {r \in Values(resources) : r.category = category}

\* The filter closure of search_resources; query is already lowercased.
search_matches(r, query) ==
  \/ contains(to_lowercase(r.title), query)
  \/ contains(to_lowercase(r.description), query)

search_resources(query) ==
  LET q == to_lowercase(query)
  IN  {r \in Values(resources) : search_matches(r, q)}

---------------------------------------------------------------------------
(* Update calls *)

set_admin_first_wins(caller) ==
  /\ admin' = IF admin = None THEN Some(caller) ELSE admin
  /\ call' = Call("set_admin", 0, NoPayload, Some(caller), << >>)
  /\ result' = Ok({})
  /\ adminEverSet' = TRUE
  /\ UNCHANGED <<resources, next_id, clock, stable, phase, issued, snap>>

set_admin(caller) ==
  /\ admin' = Some(caller)
  /\ call' = Call("set_admin", 0, NoPayload, Some(caller), << >>)
  /\ result' = Ok({})
  /\ adminEverSet' = TRUE
  /\ UNCHANGED <<resources, next_id, clock, stable, phase, issued, snap>>

create_resource_allocates_first(payload) ==
  LET v == validate_input(payload.title, payload.description)
      id == next_id
      timestamp == get_timestamp
      resource == new_resource(id, payload, timestamp)
  IN  /\ call' = Call("create_resource", 0, payload, None, << >>)
      /\ next_id' = bump_next_id(next_id)
      /\ IF v.kind = "Err"
         THEN /\ result' = v
              /\ UNCHANGED <<resources, issued>>
         ELSE /\ resources' = Insert(resources, id, resource)
              /\ result' = Ok({resource})
              /\ issued' = Append(issued, id)
      /\ UNCHANGED <<admin, clock, stable, phase, adminEverSet, snap>>

create_resource(payload) ==
  LET v == validate_input(payload.title, payload.description)
      id == next_id
      timestamp == get_timestamp
      resource == new_resource(id, payload, timestamp)
  IN  /\ call' = Call("create_resource", 0, payload, None, << >>)
      /\ IF v.kind = "Err"
         THEN /\ result' = v
              /\ UNCHANGED <<resources, next_id, issued>>
         ELSE /\ resources' = Insert(resources, id, resource)
              /\ next_id' = bump_next_id(next_id)
              /\ result' = Ok({resource})
              /\ issued' = Append(issued, id)
      /\ UNCHANGED <<admin, clock, stable, phase, adminEverSet, snap>>

update_resource_lookup_first(id, payload) ==
  LET v == validate_input(payload.title, payload.description)
  IN  /\ call' = Call("update_resource", id, payload, None, << >>)
      /\ IF id \notin DOMAIN resources
         THEN /\ result' = Err("NotFound", "")
              /\ UNCHANGED resources
         ELSE IF v.kind = "Err"
         THEN /\ result' = v
              /\ UNCHANGED resources
         ELSE LET resource == updated(resources[id], payload, get_timestamp)
              IN  /\ resources' = [resources EXCEPT ![id] = resource]
                  /\ result' = Ok({resource})
      /\ UNCHANGED <<next_id, admin, clock, stable, phase, issued, adminEverSet, snap>>

update_resource(id, payload) ==
  LET v == validate_input(payload.title, payload.description)
  IN  /\ call' = Call("update_resource", id, payload, None, << >>)
      /\ IF v.kind = "Err"
         THEN /\ result' = v
              /\ UNCHANGED resources
         ELSE IF id \in DOMAIN resources
         THEN LET resource == updated(resources[id], payload, get_timestamp)
              IN  /\ resources' = [resources EXCEPT ![id] = resource]
                  /\ result' = Ok({resource})
         ELSE /\ result' = Err("NotFound", "")
              /\ UNCHANGED resources
      /\ UNCHANGED <<next_id, admin, clock, stable, phase, issued, adminEverSet, snap>>

delete_resource_reclaims_id(id) ==
  /\ call' = Call("delete_resource", id, NoPayload, None, << >>)
  /\ IF id \in DOMAIN resources
     THEN /\ resources' = Remove(resources, id)
          /\ next_id' = id
          /\ result' = Ok({})
     ELSE /\ result' = Err("NotFound", "")
          /\ UNCHANGED <<resources, next_id>>
  /\ UNCHANGED <<admin, clock, stable, phase, issued, adminEverSet, snap>>

delete_resource(id) ==
  /\ call' = Call("delete_resource", id, NoPayload, None, << >>)
  /\ IF id \in DOMAIN resources
     THEN /\ resources' = Remove(resources, id)
          /\ result' = Ok({})
     ELSE /\ result' = Err("NotFound", "")
          /\ UNCHANGED resources
  /\ UNCHANGED <<next_id, admin, clock, stable, phase, issued, adminEverSet, snap>>

verify_resource_lookup_first(id, caller) ==
  /\ call' = Call("verify_resource", id, NoPayload, Some(caller), << >>)
  /\ IF id \notin DOMAIN resources
     THEN /\ result' = Err("NotFound", "")
          /\ UNCHANGED resources
     ELSE IF ~is_admin(caller)
     THEN /\ result' = Err("Unauthorized", "")
          /\ UNCHANGED resources
     ELSE LET resource == verified(resources[id], get_timestamp)
          IN  /\ resources' = [resources EXCEPT ![id] = resource]
              /\ result' = Ok({resource})
  /\ UNCHANGED <<next_id, admin, clock, stable, phase, issued, adminEverSet, snap>>

verify_resource(id, caller) ==
  /\ call' = Call("verify_resource", id, NoPayload, Some(caller), << >>)
  /\ IF ~is_admin(caller)
     THEN /\ result' = Err("Unauthorized", "")
          /\ UNCHANGED resources
     ELSE IF id \in DOMAIN resources
     THEN LET resource == verified(resources[id], get_timestamp)
          IN  /\ resources' = [resources EXCEPT ![id] = resource]
              /\ result' = Ok({resource})
     ELSE /\ result' = Err("NotFound", "")
          /\ UNCHANGED resources
  /\ UNCHANGED <<next_id, admin, clock, stable, phase, issued, adminEverSet, snap>>

---------------------------------------------------------------------------
(* Query calls *)

Respond(c, r) ==
  /\ call' = c
  /\ result' = r
  /\ UNCHANGED <<resources, next_id, admin, clock, stable, phase, issued,
                 adminEverSet, snap>>

GetResource(id) ==
  Respond(Call("get_resource", id, NoPayload, None, << >>), get_resource(id))

ListResources ==
  Respond(Call("list_resources", 0, NoPayload, None, << >>), Ok(list_resources))

ListResourcesByCategory(category) ==
  Respond(Call("list_resources_by_category", 0,
               CreateResourcePayload(<< >>, << >>, category), None, << >>),
          Ok(list_resources_by_category(category)))

SearchResources(query) ==
  Respond(Call("search_resources", 0, NoPayload, None, query),
          Ok(search_resources(query)))

---------------------------------------------------------------------------
(* Stable memory and the upgrade hooks *)

RECURSIVE KeysInOrder(_)
KeysInOrder(S) ==
  IF S = {} THEN << >>
  ELSE LET k == CHOOSE x \in S : \A y \in S : x <= y
       IN  <<k>> \o KeysInOrder(S \ {k})

\* The Candid blob of (HashMap<u64, EczemaResource>,): a vec header and one
\* cell per entry.
EncodeMap(m) ==
  LET keys == KeysInOrder(DOMAIN m)
  IN  <<[ty |-> "vec", n |-> Len(keys)]>>
      \o [i \in 1..Len(keys) |-> [ty |-> "entry", k |-> keys[i], v |-> m[keys[i]]]]

\* The Candid blob of (u64,).
EncodeNat64(n) == <<[ty |-> "nat64", n |-> n]>>

\* ic_cdk::storage::stable_save: writes the blob from offset 0 of stable
\* memory, over what was there; cells past its end keep their content.
stable_save(mem, blob) ==
  [i \in 1..(IF Len(mem) > Len(blob) THEN Len(mem) ELSE Len(blob)) |->
     IF i <= Len(blob) THEN blob[i] ELSE mem[i]]

\* ic_cdk::storage::stable_restore::<(HashMap<u64, EczemaResource>,)>:
\* decodes from offset 0; Err when the blob there is of another type.
stable_restore_map(mem) ==
  IF /\ Len(mem) >= 1
     /\ mem[1].ty = "vec"
     /\ Len(mem) >= 1 + mem[1].n
     /\ \A i \in 2..(1 + mem[1].n) : mem[i].ty = "entry"
  THEN [ok |-> TRUE,
        value |-> [k \in {mem[i].k : i \in 2..(1 + mem[1].n)} |->
                     (CHOOSE c \in {mem[i] : i \in 2..(1 + mem[1].n)} : c.k = k).v]]
  ELSE [ok |-> FALSE, value |-> EmptyMap]

\* ic_cdk::storage::stable_restore::<(u64,)>
stable_restore_nat64(mem) ==
  IF Len(mem) >= 1 /\ mem[1].ty = "nat64"
  THEN [ok |-> TRUE, value |-> mem[1].n]
  ELSE [ok |-> FALSE, value |-> 0]

\* Stable memory after the two saves of pre_upgrade (lib.rs 208-209).
saved(mem) ==
  stable_save(stable_save(mem, EncodeMap(resources)), EncodeNat64(next_id))

pre_upgrade ==
  /\ stable' = saved(stable)
  /\ phase' = "upgrading"
  /\ snap' = [resources |-> resources, next_id |-> next_id, admin |-> admin]
  /\ call' = Call("pre_upgrade", 0, NoPayload, None, << >>)
  /\ result' = Ok({})
  /\ UNCHANGED <<resources, next_id, admin, clock, issued, adminEverSet>>

post_upgrade_assigns_as_decoded ==
  LET stored_resources == stable_restore_map(stable)
      stored_next_id == stable_restore_nat64(stable)
  IN  /\ call' = Call("post_upgrade", 0, NoPayload, None, << >>)
      /\ admin' = None
      /\ resources' = IF stored_resources.ok THEN stored_resources.value ELSE EmptyMap
      /\ next_id' = IF stored_next_id.ok THEN stored_next_id.value ELSE 1
      /\ IF stored_resources.ok /\ stored_next_id.ok
         THEN phase' = "running" /\ result' = Ok({})
         ELSE phase' = "trapped" /\ result' = Trap
      /\ UNCHANGED <<clock, stable, issued, adminEverSet, snap>>

\* post_upgrade runs in the new process image, whose thread_local state is
\* freshly initialised; an unwrap of an Err traps before either assignment.
post_upgrade ==
  LET stored_resources == stable_restore_map(stable)
      stored_next_id == stable_restore_nat64(stable)
  IN  /\ call' = Call("post_upgrade", 0, NoPayload, None, << >>)
      /\ admin' = None
      /\ IF stored_resources.ok /\ stored_next_id.ok
         THEN /\ resources' = stored_resources.value
              /\ next_id' = stored_next_id.value
              /\ phase' = "running"
              /\ result' = Ok({})
         ELSE /\ resources' = EmptyMap
              /\ next_id' = 1
              /\ phase' = "trapped"
              /\ result' = Trap
      /\ UNCHANGED <<clock, stable, issued, adminEverSet, snap>>

\* The system clock read by get_timestamp moves on between calls.
Tick ==
  /\ clock' = clock + 1
  /\ UNCHANGED <<resources, next_id, admin, stable, phase, call, result, issued,
                 adminEverSet, snap>>

---------------------------------------------------------------------------
(* Inputs *)

Ta == <<97>>

TAb == <<65, 98>>

Dx == <<120>>

Dyz == <<89, 122>>

Payloads ==
  { CreateResourcePayload(Ta, Dx, "Treatment"),
    CreateResourcePayload(TAb, Dyz, "Prevention"),
    CreateResourcePayload(<< >>, Dx, "Research"),
    CreateResourcePayload(Ta, << >>, "Research") }

Ids == 1..MaxId

---------------------------------------------------------------------------
(* The canister *)

Init ==
  /\ resources = EmptyMap
  /\ next_id = 1
  /\ admin = None
  /\ clock = 0
  /\ stable = << >>
  /\ phase = "running"
  /\ call = Call("init", 0, NoPayload, None, << >>)
  /\ result = Ok({})
  /\ issued = << >>
  /\ adminEverSet = FALSE
  /\ prevAdmin = None
  /\ retried = FALSE
  /\ snap = [resources |-> EmptyMap, next_id |-> 1, admin |-> None]

Running == phase = "running"

\* The history variables stay as they are.
Quiet == UNCHANGED <<prevAdmin, retried>>

\* prevAdmin records the admin that a set_admin call replaced.
LogAdmin ==
  /\ prevAdmin' = IF call'.op = "set_admin" /\ clock' = clock THEN admin ELSE prevAdmin
  /\ UNCHANGED retried

\* retried records whether the last call repeated the call before it.
LogRetry ==
  /\ retried' = IF clock' = clock THEN call' = call ELSE retried
  /\ UNCHANGED prevAdmin

\* The steps of the canister.
SetAdminStep == \E caller \in Principals : Running /\ set_admin(caller)

CreateStep == \E payload \in Payloads : Running /\ next_id <= MaxId /\ create_resource(payload)

UpdateStep == \E id \in Ids, payload \in Payloads : Running /\ update_resource(id, payload)

DeleteStep == \E id \in Ids : Running /\ delete_resource(id)

VerifyStep == \E id \in Ids, caller \in Principals : Running /\ verify_resource(id, caller)

PreUpgradeStep == Running /\ pre_upgrade

PostUpgradeStep == phase = "upgrading" /\ post_upgrade

TickStep == Running /\ clock < MaxTime /\ Tick

Next ==
  \/ SetAdminStep /\ Quiet
  \/ CreateStep /\ Quiet
  \/ UpdateStep /\ Quiet
  \/ DeleteStep /\ Quiet
  \/ VerifyStep /\ Quiet
  \/ PreUpgradeStep /\ Quiet
  \/ PostUpgradeStep /\ Quiet
  \/ TickStep /\ Quiet

Spec == Init /\ [][Next]_vars

\* The same canister, observed with the admin each set_admin replaced.
NextAdmin ==
  \/ SetAdminStep /\ LogAdmin
  \/ CreateStep /\ LogAdmin
  \/ UpdateStep /\ LogAdmin
  \/ DeleteStep /\ LogAdmin
  \/ VerifyStep /\ LogAdmin
  \/ PreUpgradeStep /\ LogAdmin
  \/ PostUpgradeStep /\ LogAdmin
  \/ TickStep /\ LogAdmin

SpecAdmin == Init /\ [][NextAdmin]_vars

\* The same canister, observed with whether each call repeats the last one.
NextRetry ==
  \/ SetAdminStep /\ LogRetry
  \/ CreateStep /\ LogRetry
  \/ UpdateStep /\ LogRetry
  \/ DeleteStep /\ LogRetry
  \/ VerifyStep /\ LogRetry
  \/ PreUpgradeStep /\ LogRetry
  \/ PostUpgradeStep /\ LogRetry
  \/ TickStep /\ LogRetry

SpecRetry == Init /\ [][NextRetry]_vars

---------------------------------------------------------------------------
(* The length bounds: create and update called with titles and descriptions
   whose lengths lie around the bounds, in one-byte and in two-byte
   characters *)

Around(n) == {k \in 0..(n + Slack) : k >= n - Slack}

\* Texts of the one-byte letter a around 0 and max characters, and of the
\* two-byte letter e-acute around max / 2 and max characters.
BoundaryTexts(max) ==
  {Rep(97, n) : n \in Around(0) \cup Around(max)}
  \cup {Rep(233, n) : n \in Around(max \div 2) \cup Around(max)}

BoundaryPayloads ==
  {CreateResourcePayload(title, Dx, "Treatment") : title \in BoundaryTexts(TitleMax)}
  \cup
  {CreateResourcePayload(Ta, description, "Treatment") :
     description \in BoundaryTexts(DescMax)}

NextBounds ==
  \/ \E payload \in BoundaryPayloads : next_id = 1 /\ create_resource(payload) /\ Quiet
  \/ \E id \in Ids, payload \in BoundaryPayloads : update_resource(id, payload) /\ Quiet

SpecBounds == Init /\ [][NextBounds]_vars

---------------------------------------------------------------------------
(* The queries: a store of at most two resources, the first with any title
   and description of up to MaxLen letters, and every query call *)

\* Capital alpha, small alpha and capital sigma.
Alphabet == {913, 945, 931}

Strings(n) == UNION {[1..k -> Alphabet] : k \in 0..n}

NextQuery ==
  \/ \E title \in Strings(MaxLen), description \in Strings(MaxLen) :
       /\ next_id = 1
       /\ create_resource(CreateResourcePayload(title, description, "Research"))
       /\ Quiet
  \/ \E payload \in Payloads : next_id = 2 /\ create_resource(payload) /\ Quiet
  \/ \E id \in Ids : GetResource(id) /\ Quiet
  \/ ListResources /\ Quiet
  \/ \E category \in ResourceCategory : ListResourcesByCategory(category) /\ Quiet
  \/ \E query \in Strings(MaxLen) : SearchResources(query) /\ Quiet

SpecQuery == Init /\ [][NextQuery]_vars

---------------------------------------------------------------------------
(* Properties *)

\* A step that is the call op: every call leaves the clock alone and records
\* itself in call, and Tick is the only other step.
StepOf(op) == call'.op = op /\ clock' = clock

\* Every resource but the one under id, next_id and admin are as before.
OthersUnchanged(id) ==
  /\ DOMAIN resources' = DOMAIN resources
  /\ \A k \in DOMAIN resources : k # id => resources'[k] = resources[k]
  /\ next_id' = next_id
  /\ admin' = admin

\* C1: after a snapshot (pre_upgrade) and a restore (post_upgrade) in the new
\* process, the restore has completed and the store holds the resources and
\* the next_id it held before the snapshot.
RoundTrip_C1 ==
  call.op = "post_upgrade" =>
    /\ result.kind = "Ok"
    /\ resources = snap.resources
    /\ next_id = snap.next_id

\* C2: the ids returned by successful create_resource calls are strictly
\* increasing, so none is issued twice, also after a delete.
IdsStrictlyIncrease_C2 ==
  \A i, j \in 1..Len(issued) : i < j => issued[i] < issued[j]

IdsStrictlyIncrease_C2_witness ==
  /\ call.op = "create_resource"
  /\ result.kind = "Ok"
  /\ Len(issued) >= 2
  /\ issued[1] \notin DOMAIN resources

\* C3: right after a successful create_resource, get_resource on the returned
\* id yields the returned resource, which has verified = false and
\* created_at = updated_at.
CreateThenGet_C3 ==
  (call.op = "create_resource" /\ result.kind = "Ok") =>
    /\ Cardinality(result.rows) = 1
    /\ \A r \in result.rows :
         /\ get_resource(r.id) = Ok({r})
         /\ r.verified = FALSE
         /\ r.created_at = r.updated_at
         /\ r.title = call.payload.title
         /\ r.description = call.payload.description
         /\ r.category = call.payload.category

CreateThenGet_C3_witness ==
  /\ call.op = "create_resource"
  /\ result.kind = "Ok"
  /\ Cardinality(DOMAIN resources) >= 2
  /\ clock > 0

\* C4: a call that returns an error leaves resources, next_id and admin as
\* they were; a create_resource that fails validation consumes no id.
ErrorsChangeNothing_C4 ==
  [][result'.kind = "Err" => UNCHANGED store]_vars

ErrorsChangeNothing_C4_witness ==
  /\ call.op = "create_resource"
  /\ result.kind = "Err"
  /\ resources # EmptyMap
  /\ next_id <= MaxId

\* C6: as long as set_admin was never called, admin is absent, verify_resource
\* returns Unauthorized for every caller and id, and no resource is verified.
NoAdminNoVerify_C6 ==
  ~adminEverSet =>
    /\ admin = None
    /\ call.op = "verify_resource" => result = Err("Unauthorized", "")
    /\ \A r \in Values(resources) : ~r.verified

NoAdminNoVerify_C6_witness ==
  /\ ~adminEverSet
  /\ call.op = "verify_resource"
  /\ call.id \in DOMAIN resources

\* The frame of a verify_resource call by the current admin on an existing id.
VerifyFrame(id) ==
  /\ result'.kind = "Ok"
  /\ result'.rows = {resources'[id]}
  /\ resources'[id].verified = TRUE
  /\ resources'[id].id = resources[id].id
  /\ resources'[id].title = resources[id].title
  /\ resources'[id].description = resources[id].description
  /\ resources'[id].category = resources[id].category
  /\ resources'[id].created_at = resources[id].created_at
  /\ OthersUnchanged(id)

VerifyByAdmin(id) ==
  /\ StepOf("verify_resource")
  /\ call'.id = id
  /\ call'.caller = admin
  /\ id \in DOMAIN resources

\* C7 as stated: verify_resource by the admin on an existing id sets verified,
\* keeps id, title, description, category and created_at, ADVANCES updated_at,
\* and changes nothing else.
VerifyAdvances_C7 ==
  [][\A id \in Ids : VerifyByAdmin(id) =>
       /\ VerifyFrame(id)
       /\ resources'[id].updated_at > resources[id].updated_at]_vars

\* C7 as amended: the same, with updated_at set to the time of the call (which
\* is the old value when both fall in the same second).
VerifyRestamps_C7 ==
  [][\A id \in Ids : VerifyByAdmin(id) =>
       /\ VerifyFrame(id)
       /\ resources'[id].updated_at = clock]_vars

VerifyRestamps_C7_witness ==
  /\ call.op = "verify_resource"
  /\ result.kind = "Ok"
  /\ Cardinality(DOMAIN resources) >= 2
  /\ \E r \in result.rows : r.updated_at > r.created_at

\* C8: a successful update_resource overwrites title, description and category
\* of that resource and refreshes updated_at; id, created_at and verified stay
\* (a verified resource stays verified), and nothing else changes.
UpdateFrame_C8 ==
  [][\A id \in Ids :
       (StepOf("update_resource") /\ call'.id = id /\ result'.kind = "Ok") =>
         /\ id \in DOMAIN resources
         /\ result'.rows = {resources'[id]}
         /\ resources'[id].title = call'.payload.title
         /\ resources'[id].description = call'.payload.description
         /\ resources'[id].category = call'.payload.category
         /\ resources'[id].updated_at = clock
         /\ resources'[id].id = resources[id].id
         /\ resources'[id].created_at = resources[id].created_at
         /\ resources'[id].verified = resources[id].verified
         /\ OthersUnchanged(id)]_vars

UpdateFrame_C8_witness ==
  /\ call.op = "update_resource"
  /\ result.kind = "Ok"
  /\ Cardinality(DOMAIN resources) >= 2
  /\ \E r \in result.rows :
       r.verified /\ r.updated_at > r.created_at /\ r.category = "Prevention"

\* The number of characters of a text (one code point each).
CharCount(s) == Len(s)

\* The input is within the documented bounds, counted in characters.
InBounds(payload) ==
  /\ CharCount(payload.title) >= 1
  /\ CharCount(payload.title) <= TitleMax
  /\ CharCount(payload.description) >= 1
  /\ CharCount(payload.description) <= DescMax

\* C5: update_resource validates before it looks up: out-of-bounds input gets
\* InvalidInput whether or not the id exists, and NotFound is returned only for
\* valid input and an absent id.
UpdateValidatesFirst_C5 ==
  call.op = "update_resource" =>
    /\ ~InBounds(call.payload) => result.err = "InvalidInput"
    /\ result.err = "NotFound" =>
         InBounds(call.payload) /\ call.id \notin DOMAIN resources

UpdateValidatesFirst_C5_witness ==
  /\ call.op = "update_resource"
  /\ result.err = "InvalidInput"
  /\ CharCount(call.payload.title) = TitleMax + 1
  /\ call.id \notin DOMAIN resources
  /\ resources # EmptyMap

\* C9: create_resource and update_resource accept an input exactly when the
\* title has 1 to 100 and the description 1 to 500 characters, and otherwise
\* return InvalidInput with the message of the failing field.
LengthInCharacters_C9 ==
  call.op \in {"create_resource", "update_resource"} =>
    LET title == call.payload.title
        description == call.payload.description
        titleOk == CharCount(title) >= 1 /\ CharCount(title) <= TitleMax
        descriptionOk == CharCount(description) >= 1 /\ CharCount(description) <= DescMax
    IN  /\ result.err # "InvalidInput" <=> (titleOk /\ descriptionOk)
        /\ ~titleOk => result.msg = "Title must be 1-100 characters long."
        /\ (titleOk /\ ~descriptionOk) =>
             result.msg = "Description must be 1-500 characters long."

\* The capital of a letter; both small sigmas have the capital sigma.
UpperChar(c) == IF c = 962 THEN 931 ELSE IF IsLower(c) /\ c # 223 /\ c # 255 THEN c - 32 ELSE c

SameLetter(a, b) == a = b \/ UpperChar(a) = b \/ a = UpperChar(b)

\* pat occurs in s at some offset, letter by letter, whatever the case.
ContainsIgnoringCase(s, pat) ==
  \E off \in 0..Len(s) :
    /\ off + Len(pat) <= Len(s)
    /\ \A j \in 1..Len(pat) : SameLetter(s[off + j], pat[j])

\* C10: search_resources returns exactly the stored resources whose title or
\* description contains the query ignoring case; the empty query returns all.
SearchExact_C10 ==
  call.op = "search_resources" =>
    /\ result.rows =
         {r \in Values(resources) :
            \/ ContainsIgnoringCase(r.title, call.query)
            \/ ContainsIgnoringCase(r.description, call.query)}
    /\ call.query = << >> => result.rows = Values(resources)

\* The ids issued so far.
Issued == {issued[i] : i \in DOMAIN issued}

\* C11: list_resources_by_category returns exactly the stored resources of the
\* category asked for, which for an updated resource is the category the update
\* wrote; the six lists together are list_resources.
CategoryExact_C11 ==
  /\ \A c \in ResourceCategory : \A r \in list_resources_by_category(c) :
       r.category = c /\ r.id \in DOMAIN resources /\ resources[r.id] = r
  /\ \A k \in DOMAIN resources :
       resources[k] \in list_resources_by_category(resources[k].category)
  /\ UNION {list_resources_by_category(c) : c \in ResourceCategory} = list_resources
  /\ (call.op = "update_resource" /\ result.kind = "Ok") =>
       \A c \in ResourceCategory :
         (\E r \in list_resources_by_category(c) : r.id = call.id)
           <=> c = call.payload.category

CategoryExact_C11_witness ==
  /\ call.op = "update_resource"
  /\ result.kind = "Ok"
  /\ Cardinality(list_resources_by_category("Prevention")) = 2
  /\ list_resources_by_category("Treatment") = {}

\* The id was issued and its resource is no longer stored.
Gone(id) == id \in Issued /\ id \notin DOMAIN resources

\* C12: delete_resource on an existing id removes that entry and nothing else;
\* from then on the id stays absent and get_resource, update_resource with
\* valid input, delete_resource and the admin's verify_resource on it return
\* NotFound.
DeleteRemoves_C12 ==
  [][\A id \in Ids :
       /\ (StepOf("delete_resource") /\ call'.id = id /\ id \in DOMAIN resources) =>
            /\ result' = Ok({})
            /\ DOMAIN resources' = (DOMAIN resources) \ {id}
            /\ \A k \in DOMAIN resources' : resources'[k] = resources[k]
            /\ next_id' = next_id
            /\ admin' = admin
       /\ Gone(id) =>
            /\ Gone(id)'
            /\ get_resource(id)' = Err("NotFound", "")
            /\ ( /\ clock' = clock
                 /\ call'.id = id
                 /\ \/ call'.op = "update_resource" /\ InBounds(call'.payload)
                    \/ call'.op = "delete_resource"
                    \/ call'.op = "verify_resource" /\ call'.caller = admin )
               => result' = Err("NotFound", "")]_vars

DeleteRemoves_C12_witness ==
  /\ call.op = "verify_resource"
  /\ call.caller = admin
  /\ result = Err("NotFound", "")
  /\ Gone(call.id)
  /\ resources # EmptyMap

\* C13: set_admin always succeeds and makes its caller the admin whoever was
\* admin before, leaving resources and next_id alone; once b has replaced a,
\* verify_resource by a is Unauthorized and by b on an existing id succeeds.
SetAdminOverwrites_C13 ==
  [][/\ StepOf("set_admin") =>
          /\ result' = Ok({})
          /\ admin' = call'.caller
          /\ \E p \in Principals : admin' = Some(p)
          /\ UNCHANGED <<resources, next_id>>
     /\ (StepOf("verify_resource") /\ prevAdmin # None /\ prevAdmin # admin) =>
          /\ call'.caller = prevAdmin => result' = Err("Unauthorized", "")
          /\ (call'.caller = admin /\ call'.id \in DOMAIN resources) =>
               /\ result'.kind = "Ok"
               /\ resources'[call'.id].verified]_vars

SetAdminOverwrites_C13_witness ==
  /\ call.op = "verify_resource"
  /\ prevAdmin # None
  /\ prevAdmin # admin
  /\ call.caller = prevAdmin
  /\ result = Err("Unauthorized", "")
  /\ call.id \in DOMAIN resources
  /\ \E r \in Values(resources) : r.verified

\* A step that repeats the last call.
Retry(ops) == call' = call /\ clock' = clock /\ call'.op \in ops

\* Two create_resource calls in a row with the same payload store two
\* resources under distinct ids.
CreateTwice ==
  (Retry({"create_resource"}) /\ result'.kind = "Ok") =>
    /\ result.kind = "Ok"
    /\ \A r \in result.rows, q \in result'.rows :
         /\ r.id # q.id
         /\ r.id \in DOMAIN resources' /\ resources'[r.id] = r
         /\ q.id \in DOMAIN resources' /\ resources'[q.id] = q

\* C14 as stated: the same update_resource, delete_resource, verify_resource or
\* set_admin call issued twice in a row leaves the store as issuing it once
\* did; create_resource stores two resources with distinct ids.
RetryChangesNothing_C14 ==
  [][/\ Retry({"update_resource", "delete_resource", "verify_resource", "set_admin"})
          => UNCHANGED store
     /\ CreateTwice]_vars

\* C14 as amended: the same, except that a repeated successful update_resource
\* or verify_resource sets updated_at of its resource to the time of the
\* second call.
RetryRestampsOnly_C14 ==
  [][/\ Retry({"update_resource", "delete_resource", "verify_resource", "set_admin"}) =>
          /\ next_id' = next_id
          /\ admin' = admin
          /\ DOMAIN resources' = DOMAIN resources
          /\ \A k \in DOMAIN resources :
               resources'[k] =
                 IF /\ k = call'.id
                    /\ result'.kind = "Ok"
                    /\ call'.op \in {"update_resource", "verify_resource"}
                 THEN [resources[k] EXCEPT !.updated_at = clock]
                 ELSE resources[k]
     /\ CreateTwice]_vars

RetryRestampsOnly_C14_witness ==
  /\ retried
  /\ call.op = "update_resource"
  /\ result.kind = "Ok"
  /\ \E r \in result.rows : r.updated_at > r.created_at /\ r.verified

\* C15: the store starts empty with next_id = 1; every key of resources is
\* below next_id, as is every id issued while the process lives; and
\* delete_resource leaves next_id as it is.
KeysBelowNextId_C15 ==
  /\ next_id = 1 /\ resources = EmptyMap
  /\ [](/\ \A k \in DOMAIN resources : k < next_id
        /\ phase # "trapped" => \A id \in Issued : id < next_id)
  /\ [][StepOf("delete_resource") => next_id' = next_id]_vars

KeysBelowNextId_C15_witness ==
  /\ call.op = "delete_resource"
  /\ result.kind = "Ok"
  /\ DOMAIN resources = {2}
  /\ next_id = 3

\* C16: every key of resources is the id of the resource stored under it.
KeyIsId_C16 == \A k \in DOMAIN resources : resources[k].id = k

KeyIsId_C16_witness ==
  /\ call.op = "update_resource"
  /\ result.kind = "Ok"
  /\ DOMAIN resources = {2}
  /\ resources[2].verified
  /\ resources[2].category = "Treatment"

\* C17: a resource enters the store unverified; verified becomes true only by
\* a successful verify_resource of the current admin on it; and it stays true
\* for as long as the resource is stored.
VerifiedOneWay_C17 ==
  [][\A id \in DOMAIN resources' :
       IF id \in DOMAIN resources
       THEN /\ resources[id].verified => resources'[id].verified
            /\ (~resources[id].verified /\ resources'[id].verified) =>
                 /\ StepOf("verify_resource")
                 /\ call'.id = id
                 /\ call'.caller = admin
                 /\ result' = Ok({resources'[id]})
       ELSE ~resources'[id].verified]_vars

VerifiedOneWay_C17_witness ==
  /\ call.op = "update_resource"
  /\ result.kind = "Ok"
  /\ \E r \in result.rows : r.verified
  /\ prevAdmin # None
  /\ prevAdmin # admin
  /\ Cardinality(DOMAIN resources) = 2

\* C18: post_upgrade either completes with resources and next_id both from the
\* snapshot, or traps with neither assigned (the new process keeps its initial
\* empty map and next_id = 1).
RestoreAllOrNothing_C18 ==
  call.op = "post_upgrade" =>
    \/ /\ result.kind = "Ok"
       /\ phase = "running"
       /\ resources = snap.resources
       /\ next_id = snap.next_id
    \/ /\ result = Trap
       /\ phase = "trapped"
       /\ resources = EmptyMap
       /\ next_id = 1

RestoreAllOrNothing_C18_witness ==
  /\ call.op = "post_upgrade"
  /\ result = Trap
  /\ snap.resources # EmptyMap
  /\ snap.next_id > 1
  /\ resources = EmptyMap
  /\ next_id = 1

\* C19: after a snapshot and a restore the new process serves calls with admin
\* absent (so verify_resource by the former admin is Unauthorized until
\* set_admin is called again).
AdminNotRestored_C19 ==
  call.op = "post_upgrade" =>
    /\ phase = "running"
    /\ admin = None
    /\ \A caller \in Principals : ~is_admin(caller)

\* C20: verify_resource answers Unauthorized to every caller that is not the
\* admin, for existing and absent ids alike, and NotFound only to the admin.
VerifyAuthorizesFirst_C20 ==
  call.op = "verify_resource" =>
    /\ call.caller # admin => result = Err("Unauthorized", "")
    /\ result.err = "NotFound" =>
         call.caller = admin /\ call.id \notin DOMAIN resources

VerifyAuthorizesFirst_C20_witness ==
  /\ call.op = "verify_resource"
  /\ admin # None
  /\ call.caller # admin
  /\ result = Err("Unauthorized", "")
  /\ call.id \notin DOMAIN resources
  /\ resources # EmptyMap

====
